---- MODULE Spec2Model ----
(***************************************************************************)
(* Model of the interview session orchestration of ai-mock-interview:      *)
(* the Agent component (components/Agent.tsx), a React client component    *)
(* driven by the callbacks of the voice engine (vapi), and the feedback    *)
(* action it calls (createFeedback).                                       *)
(*                                                                         *)
(* The useState cells (callStatus, messages, errorMessage, isSpeaking) are *)
(* the state.  Every handler is one action: the state updates it makes,    *)
(* the commit React performs for them, and the call-completion useEffect   *)
(* that the commit runs when one of its dependencies changed.              *)
(*                                                                         *)
(* Text is modelled as a sequence of fragments, so that concatenation and  *)
(* String.prototype.includes are computed rather than assumed.             *)
(***************************************************************************)
EXTENDS Integers, Sequences, FiniteSets, TLC

VARIABLES
    type,            \* prop `type`: "generate" | "interview"
    callStatus,      \* useState<CallStatus>
    messages,        \* useState<SavedMessage[]>
    errorMessage,    \* useState<string | null>, as an option: <<>> or <<text>>
    isSpeaking,      \* useState(false)
    mounted,         \* the component is mounted (listeners registered)
    started,         \* vapi.start has been called on the engine
    pendingStarts,   \* vapi.start promises not yet settled
    stopRequested,   \* vapi.stop() has been called for the current call
    inflight,        \* createFeedback calls not yet completed
    synthCalls,      \* createFeedback invocations of the current session (saturating)
    exitRuns,        \* exit decisions (navigate or synthesize) of the current session (saturating)
    lastNav,         \* last destination given to router.push, "none" before any
    delivered,       \* message events delivered since the transcript was last cleared
    payload,         \* classifier check: the error payload under test
    feedback,        \* the Firestore collection 'feedback': a set of documents
    feedbackCalls,   \* the createFeedback calls under way, by call slot
    clock,           \* the server's Date
    listeners,       \* the engine's emitter: per event the handlers registered and the on/off calls made
    request,         \* parameters of the last createFeedback invocation of the current session, while awaited
    fetched,         \* read check: what getFeedbackByInterviewId returned
    prompt,          \* prompt check: the formatted transcript
    props,           \* props userName, userId and questions, each as an option
    startRequest,    \* arguments of the last vapi.start call, <<>> before any
    users,           \* the Firestore collection 'users': per uid the document, if any
    signUpCalls      \* the signUp calls under way, by call slot

vars == <<type, callStatus, messages, errorMessage, isSpeaking,
          mounted, started, pendingStarts, stopRequested,
          inflight, synthCalls, exitRuns, request, lastNav, delivered, payload,
          feedback, feedbackCalls, clock, listeners, fetched, prompt,
          props, startRequest, users, signUpCalls>>

\* the variables that belong to the checks of the server actions
actionVars == <<fetched, prompt>>

\* the variables of the start request and of the sign-up check
startVars == <<props, startRequest>>

accountVars == <<users, signUpCalls>>

----------------------------------------------------------------------------
(* Bounds *)

MaxDelivered == 2     \* message events delivered per transcript lifetime
MaxPending == 1       \* vapi.start promises in flight
MaxInflight == 1      \* createFeedback calls in flight
MaxCount == 2         \* saturation of the per-session counters
MaxErrLen == 3        \* fragments in an error message of the classifier check
MaxRecords == 2       \* documents of the feedback collection
MaxClock == 1         \* ticks of the server's Date
MaxQuestions == 2     \* questions of an interview in the start-request check

----------------------------------------------------------------------------
(* Values *)

INACTIVE == "INACTIVE"
CONNECTING == "CONNECTING"
ACTIVE == "ACTIVE"
FINISHED == "FINISHED"

CallStatus == {INACTIVE, CONNECTING, ACTIVE, FINISHED}

None == <<>>

Some(x) == <<x>>

\* JavaScript truthiness of an optional string: neither null/undefined nor ''
Truthy(opt) == opt # None /\ opt[1] # <<>>

Roles == {"user", "assistant"}

Texts == {"I know React"}

FinalEvents == [type : {"transcript"}, transcriptType : {"final"}, role : Roles, transcript : Texts]

PartialEvents == [type : {"transcript"}, transcriptType : {"partial"}, role : {"user"}, transcript : Texts]

\* the events delivered to onMessage: final transcripts, and a transcript that
\* is not final for the events the handler ignores
MessageEvents == FinalEvents \cup PartialEvents

HOME == "/"

FEEDBACK == "/interview/${interviewId}/feedback"

\* createFeedback: its parameters, the objects generateObject resolves with,
\* and the ids Firestore gives to added documents
InterviewIds == {"interview-1", "interview-2"}

UserIds == {"user-1", "user-2"}

Transcripts == {<<[role |-> "user", content |-> "I know React"]>>}

CreateFeedbackParams ==
    {p \in [interviewId : InterviewIds, userId : UserIds, transcript : Transcripts] :
        ~(p.interviewId = "interview-2" /\ p.userId = "user-2")}

GeneratedObjects ==
    [totalScore : {85},
     categoryScores : {<<"Communication Skills", "Technical Knowledge", "Problem-Solving",
                         "Cultural & Role Fit", "Confidence & Clarity">>},
     strengths : {<<"clear answers">>},
     areasForImprovement : {<<"more depth">>},
     finalAssessment : {"assessment"}]

GenerationFailures == {"thrown error", "invalid shape"}

\* a document id is a non-empty text of one fragment
FeedbackIds == {<<n>> : n \in 1..MaxRecords}

\* createFeedback is a server action: two invocations may be under way
CallSlots == {1, 2}

\* the template literal `/interview/${interviewId}/feedback`, by interviewId
FeedbackPath(interviewId) ==
    CASE interviewId = "interview-1" -> "/interview/interview-1/feedback"
      [] interviewId = "interview-2" -> "/interview/interview-2/feedback"

\* the questions of an interview, and the props a session is mounted with
Questions == {"What is React?", "Explain TypeScript benefits"}

MountedProps ==
    [userName |-> Some("Test User"),
     userId |-> Some("user-1"),
     questions |-> Some(<<"What is React?", "Explain TypeScript benefits">>)]

\* signUp: its parameters, the empty users collection and a call slot with
\* no signUp call under way
Uids == {"uid-1", "uid-2"}

SignUpParams == [uid : Uids, name : {"Ada", "Bob"}, email : {"ada@example.com", "bob@example.com"}]

NoUsers == [uid \in Uids |-> None]

NoSignUp == [pc |-> "idle", params |-> None, result |-> None]

\* a call slot with no createFeedback call under way
NoCall ==
    [pc |-> "idle", params |-> None, document |-> None, adds |-> 0,
     failed |-> "none", result |-> None]

\* the listener useEffect: the events and the handlers it registers, in the
\* order of its vapi.on calls; its cleanup calls vapi.off in the same order
Registrations ==
    << [event |-> "call-start", handler |-> "onCallStart"],
       [event |-> "call-end", handler |-> "onCallEnd"],
       [event |-> "message", handler |-> "onMessage"],
       [event |-> "speech-start", handler |-> "onSpeechStart"],
       [event |-> "speech-end", handler |-> "onSpeechEnd"],
       [event |-> "error", handler |-> "onError"] >>

Events == {Registrations[i].event : i \in 1..Len(Registrations)}

\* an emitter nothing was registered on
NoListeners == [e \in Events |-> [handlers |-> <<>>, ons |-> 0, offs |-> 0]]

\* vapi.on(event, handler): the handler is added to the event's listeners
VapiOn(l, event, handler) ==
    [l EXCEPT ![event] = [@ EXCEPT !.handlers = Append(@, handler), !.ons = @ + 1]]

\* a sequence without its last occurrence of x
RECURSIVE RemoveLast(_, _)
RemoveLast(seq, x) ==
    IF seq = <<>> THEN <<>>
    ELSE IF seq[Len(seq)] = x THEN SubSeq(seq, 1, Len(seq) - 1)
    ELSE Append(RemoveLast(SubSeq(seq, 1, Len(seq) - 1), x), seq[Len(seq)])

\* vapi.off(event, handler): that handler, if registered, is removed once
VapiOff(l, event, handler) ==
    [l EXCEPT ![event] = [@ EXCEPT !.handlers = RemoveLast(@, handler), !.offs = @ + 1]]

RECURSIVE OnAll(_, _)
OnAll(l, regs) ==
    IF regs = <<>> THEN l
    ELSE OnAll(VapiOn(l, regs[1].event, regs[1].handler), Tail(regs))

RECURSIVE OffAll(_, _)
OffAll(l, regs) ==
    IF regs = <<>> THEN l
    ELSE OffAll(VapiOff(l, regs[1].event, regs[1].handler), Tail(regs))

\* the emitter once the listener useEffect has run
Registered == OnAll(NoListeners, Registrations)

----------------------------------------------------------------------------
(* Text helpers *)

\* String.prototype.includes: needle occurs as a contiguous run of s
Includes(s, needle) ==
    \E i \in 0..(Len(s) - Len(needle)) : SubSeq(s, i + 1, i + Len(needle)) = needle

MeetingHasEnded == <<"Meeting", " has", " ended">>

MeetingEnded == <<"Meeting", " ended">>

Fragments == {"Meeting", " has", " ended", "meeting"}

RECURSIVE SeqsUpTo(_, _)
SeqsUpTo(S, n) ==
    IF n = 0 THEN {<<>>}
    ELSE LET shorter == SeqsUpTo(S, n - 1)
         IN  shorter \cup {Append(s, x) : s \in shorter, x \in S}

\* error payloads of the classifier check: message absent, or any short text
AllPayloads == {[message |-> None]} \cup {[message |-> Some(s)] : s \in SeqsUpTo(Fragments, MaxErrLen)}

\* error payloads the engine delivers in the session model
ErrorPayloads ==
    { [message |-> None],
      [message |-> Some(<<>>)],
      [message |-> Some(MeetingHasEnded \o <<" abruptly">>)],
      [message |-> Some(<<"Connection failed">>)] }

\* values vapi.start rejects with: an Error carrying a message, or a non-Error
StartErrors ==
    { [isError |-> TRUE, message |-> <<"Connection failed">>],
      [isError |-> FALSE, message |-> <<>>] }

REMOTE_TERMINATION_TEXT == <<"The interview session ended unexpectedly. Please try again.">>

UNKNOWN_TEXT == <<"An unexpected error occurred. Please try again.">>

\* onError testing only the first of the two substrings
ErrorText_OnlyHasEnded(error) ==
    IF Truthy(error.message) /\ Includes(error.message[1], MeetingHasEnded)
    THEN REMOTE_TERMINATION_TEXT
    ELSE IF Truthy(error.message)
    THEN <<"An error occurred: ">> \o error.message[1] \o <<". Please try again.">>
    ELSE UNKNOWN_TEXT

\* onError matching the two substrings without regard to case
ErrorText_IgnoresCase(error) ==
    LET Capitalised(t) == [i \in 1..Len(t) |-> IF t[i] = "meeting" THEN "Meeting" ELSE t[i]]
    IN  IF Truthy(error.message)
           /\ (Includes(Capitalised(error.message[1]), MeetingHasEnded)
                 \/ Includes(Capitalised(error.message[1]), MeetingEnded))
        THEN REMOTE_TERMINATION_TEXT
        ELSE IF Truthy(error.message)
        THEN <<"An error occurred: ">> \o error.message[1] \o <<". Please try again.">>
        ELSE UNKNOWN_TEXT

\* onError, the text given to setErrorMessage
ErrorText(error) ==
    IF Truthy(error.message)
       /\ (Includes(error.message[1], MeetingHasEnded) \/ Includes(error.message[1], MeetingEnded))
    THEN REMOTE_TERMINATION_TEXT
    ELSE IF Truthy(error.message)
    THEN <<"An error occurred: ">> \o error.message[1] \o <<". Please try again.">>
    ELSE UNKNOWN_TEXT

\* handleCall catch block, the text given to setErrorMessage
StartFailedText(error) ==
    <<"Failed to start the interview. Please try again. ">>
        \o (IF error.isError THEN error.message ELSE <<>>)

Saturate(n) == IF n < MaxCount THEN n + 1 ELSE MaxCount

----------------------------------------------------------------------------
(* The component *)

Init ==
    /\ type \in {"generate", "interview"}
    /\ callStatus = INACTIVE
    /\ messages = <<>>
    /\ errorMessage = None
    /\ isSpeaking = FALSE
    /\ mounted = TRUE
    /\ started = FALSE
    /\ pendingStarts = 0
    /\ stopRequested = FALSE
    /\ inflight = 0
    /\ synthCalls = 0
    /\ exitRuns = 0
    /\ lastNav = "none"
    /\ delivered = <<>>
    /\ payload = [message |-> None]
    /\ feedback = {}
    /\ feedbackCalls = [c \in CallSlots |-> NoCall]
    /\ clock = 0
    /\ listeners = Registered
    /\ request = None
    /\ fetched = None
    /\ prompt = None
    /\ props = MountedProps
    /\ startRequest = None
    /\ users = NoUsers
    /\ signUpCalls = [c \in CallSlots |-> NoSignUp]

\* dependency array of the call-completion useEffect, [messages, callStatus,
\* type, userId, errorMessage, router]: does the commit of (status, err) differ
\* from the previous one.  fresh: setMessages produced a new array.  type,
\* userId and router never change.
DepsChanged(status, err, fresh) ==
    status # callStatus \/ err # errorMessage \/ fresh

\* the call-completion useEffect without the test of `type`
CallCompletionEffect_IgnoresMode(status, msgs, err) ==
    IF status = FINISHED
    THEN IF Len(msgs) > 0
         THEN [push |-> "none", feedback |-> TRUE]
         ELSE IF ~Truthy(err)
         THEN [push |-> HOME, feedback |-> FALSE]
         ELSE [push |-> "none", feedback |-> FALSE]
    ELSE [push |-> "none", feedback |-> FALSE]

\* the call-completion useEffect without the test of messages.length
CallCompletionEffect_AlwaysFeedback(status, msgs, err) ==
    IF status = FINISHED
    THEN IF type = "generate"
         THEN [push |-> HOME, feedback |-> FALSE]
         ELSE [push |-> "none", feedback |-> TRUE]
    ELSE [push |-> "none", feedback |-> FALSE]

\* the call-completion useEffect asking for feedback only when no error is attached
CallCompletionEffect_ErrorBlocksFeedback(status, msgs, err) ==
    IF status = FINISHED
    THEN IF type = "generate"
         THEN [push |-> HOME, feedback |-> FALSE]
         ELSE IF Len(msgs) > 0 /\ ~Truthy(err)
         THEN [push |-> "none", feedback |-> TRUE]
         ELSE IF ~Truthy(err)
         THEN [push |-> HOME, feedback |-> FALSE]
         ELSE [push |-> "none", feedback |-> FALSE]
    ELSE [push |-> "none", feedback |-> FALSE]

\* body of the call-completion useEffect, run with the committed values:
\* what it does, as the destination pushed ("none" if nothing is pushed) and
\* whether handleGenerateFeedback is called
CallCompletionEffect(status, msgs, err) ==
    IF status = FINISHED
    THEN IF type = "generate"
         THEN [push |-> HOME, feedback |-> FALSE]
         ELSE IF Len(msgs) > 0
         THEN [push |-> "none", feedback |-> TRUE]
         ELSE IF ~Truthy(err)
         THEN [push |-> HOME, feedback |-> FALSE]
         ELSE [push |-> "none", feedback |-> FALSE]
    ELSE [push |-> "none", feedback |-> FALSE]

\* the props interviewId and userId of the session
PropInterviewId == "interview-1"

PropUserId == "user-1"

\* handleGenerateFeedback passing only the latest message
FeedbackRequest_LatestOnly(msgs) ==
    [interviewId |-> PropInterviewId, userId |-> PropUserId,
     transcript |-> <<msgs[Len(msgs)]>>]

\* the parameters handleGenerateFeedback(messages) gives to createFeedback
FeedbackRequest(msgs) ==
    [interviewId |-> PropInterviewId, userId |-> PropUserId, transcript |-> msgs]

\* the commit of a handler's updates: the new state, and the effect if its
\* deps changed.  calls and runs are the session counters the effect's
\* actions are added to.
Commit(status, msgs, err, fresh, calls, runs) ==
    LET ran == DepsChanged(status, err, fresh)
        eff == CallCompletionEffect(status, msgs, err)
        acted == ran /\ (eff.feedback \/ eff.push # "none")
    IN  /\ callStatus' = status
        /\ messages' = msgs
        /\ errorMessage' = err
        /\ lastNav' = IF ran /\ eff.push # "none" THEN eff.push ELSE lastNav
        \* handleGenerateFeedback(messages) up to its await
        /\ inflight' = IF ran /\ eff.feedback THEN inflight + 1 ELSE inflight
        /\ synthCalls' = IF ran /\ eff.feedback THEN Saturate(calls) ELSE calls
        /\ request' = IF ran /\ eff.feedback THEN Some(FeedbackRequest(msgs))
                       ELSE IF calls = 0 THEN None ELSE request
        /\ exitRuns' = IF acted THEN Saturate(runs) ELSE runs

\* the engine delivering events to handlers that were never removed
EngineMayEmit_NoCleanup == started /\ inflight < MaxInflight

\* the listeners are registered and the engine has been asked to start a call;
\* it delivers events only while fewer than MaxInflight feedback calls are open
EngineMayEmit == mounted /\ started /\ inflight < MaxInflight

OnCallStart ==
    /\ EngineMayEmit
    /\ Commit(ACTIVE, messages, errorMessage, FALSE, synthCalls, exitRuns)
    /\ UNCHANGED <<type, started, isSpeaking, mounted, pendingStarts, stopRequested, delivered, payload, feedback, feedbackCalls, clock, listeners, fetched, prompt, startVars, accountVars>>

\* onCallEnd returning the session to INACTIVE
OnCallEnd_ResetsToInactive ==
    /\ EngineMayEmit
    /\ Commit(INACTIVE, messages, errorMessage, FALSE, synthCalls, exitRuns)
    /\ UNCHANGED <<type, started, isSpeaking, mounted, pendingStarts, stopRequested, delivered, payload, feedback, feedbackCalls, clock, listeners, fetched, prompt, startVars, accountVars>>

OnCallEnd ==
    /\ EngineMayEmit
    /\ Commit(FINISHED, messages, errorMessage, FALSE, synthCalls, exitRuns)
    /\ UNCHANGED <<type, started, isSpeaking, mounted, pendingStarts, stopRequested, delivered, payload, feedback, feedbackCalls, clock, listeners, fetched, prompt, startVars, accountVars>>

\* onMessage without the transcriptType test
OnMessage_AnyTranscript(message) ==
    /\ EngineMayEmit
    /\ Len(delivered) < MaxDelivered
    /\ delivered' = Append(delivered, message)
    /\ IF message.type = "transcript"
       THEN Commit(callStatus,
                   Append(messages, [role |-> message.role, content |-> message.transcript]),
                   errorMessage, TRUE, synthCalls, exitRuns)
       ELSE UNCHANGED <<callStatus, messages, errorMessage, lastNav, inflight, synthCalls, exitRuns, request>>
    /\ UNCHANGED <<type, started, isSpeaking, mounted, pendingStarts, stopRequested, payload, feedback, feedbackCalls, clock, listeners, fetched, prompt, startVars, accountVars>>

OnMessage(message) ==
    /\ EngineMayEmit
    /\ Len(delivered) < MaxDelivered
    /\ delivered' = Append(delivered, message)
    /\ IF message.type = "transcript" /\ message.transcriptType = "final"
       THEN Commit(callStatus,
                   Append(messages, [role |-> message.role, content |-> message.transcript]),
                   errorMessage, TRUE, synthCalls, exitRuns)
       ELSE UNCHANGED <<callStatus, messages, errorMessage, lastNav, inflight, synthCalls, exitRuns, request>>
    /\ UNCHANGED <<type, started, isSpeaking, mounted, pendingStarts, stopRequested, payload, feedback, feedbackCalls, clock, listeners, fetched, prompt, startVars, accountVars>>

\* onSpeechStart flipping isSpeaking
OnSpeechStart_Toggles ==
    /\ EngineMayEmit
    /\ isSpeaking' = ~isSpeaking
    /\ UNCHANGED <<type, started, callStatus, messages, errorMessage, mounted, pendingStarts,
                   stopRequested, inflight, synthCalls, exitRuns, request, lastNav, delivered, payload, feedback, feedbackCalls, clock, listeners, fetched, prompt, startVars, accountVars>>

OnSpeechStart ==
    /\ EngineMayEmit
    /\ isSpeaking' = TRUE
    /\ UNCHANGED <<type, started, callStatus, messages, errorMessage, mounted, pendingStarts,
                   stopRequested, inflight, synthCalls, exitRuns, request, lastNav, delivered, payload, feedback, feedbackCalls, clock, listeners, fetched, prompt, startVars, accountVars>>

OnSpeechEnd ==
    /\ EngineMayEmit
    /\ isSpeaking' = FALSE
    /\ UNCHANGED <<type, started, callStatus, messages, errorMessage, mounted, pendingStarts,
                   stopRequested, inflight, synthCalls, exitRuns, request, lastNav, delivered, payload, feedback, feedbackCalls, clock, listeners, fetched, prompt, startVars, accountVars>>

\* onError whose last branch only ends the call, without setErrorMessage
OnError_UnknownNotAttached(error) ==
    /\ EngineMayEmit
    /\ Commit(FINISHED, messages,
              IF Truthy(error.message) THEN Some(ErrorText(error)) ELSE errorMessage,
              FALSE, synthCalls, exitRuns)
    /\ UNCHANGED <<type, started, isSpeaking, mounted, pendingStarts, stopRequested, delivered, payload, feedback, feedbackCalls, clock, listeners, fetched, prompt, startVars, accountVars>>

OnError(error) ==
    /\ EngineMayEmit
    /\ Commit(FINISHED, messages, Some(ErrorText(error)), FALSE, synthCalls, exitRuns)
    /\ UNCHANGED <<type, started, isSpeaking, mounted, pendingStarts, stopRequested, delivered, payload, feedback, feedbackCalls, clock, listeners, fetched, prompt, startVars, accountVars>>

\* the call button is rendered whenever the status is not ACTIVE
CallButtonShown == mounted /\ callStatus # ACTIVE

\* the End button replaces it while the status is ACTIVE
EndButtonShown == mounted /\ callStatus = ACTIVE

\* the Try Again button
RetryButtonShown == mounted /\ Truthy(errorMessage) /\ callStatus = FINISHED

\* process.env.NEXT_PUBLIC_VAPI_WORKFLOW_ID and the imported interviewer
WORKFLOW_ID == "NEXT_PUBLIC_VAPI_WORKFLOW_ID"

INTERVIEWER == "interviewer"

\* questions.map(question => `- ${question}`).join('') 
RECURSIVE JoinQuestions_NoSeparator(_)
JoinQuestions_NoSeparator(questions) ==
    IF questions = <<>> THEN <<>>
    ELSE <<"- ", Head(questions)>> \o JoinQuestions_NoSeparator(Tail(questions))

\* questions.map(question => `- ${question}`).join('\n')
RECURSIVE JoinQuestions(_)
JoinQuestions(questions) ==
    IF questions = <<>> THEN <<>>
    ELSE IF Len(questions) = 1 THEN <<"- ", Head(questions)>>
    ELSE <<"- ", Head(questions), "\n">> \o JoinQuestions(Tail(questions))

\* formattedQuestions: '' unless the questions prop is given (an array, even
\* an empty one, is truthy)
FormattedQuestions(questions) ==
    IF questions # None THEN JoinQuestions(questions[1]) ELSE <<>>

\* the arguments handleCall gives to vapi.start
StartRequest(mode, p) ==
    IF mode = "generate"
    THEN [assistant |-> WORKFLOW_ID,
          variableValues |-> [username |-> p.userName, userid |-> p.userId]]
    ELSE [assistant |-> INTERVIEWER,
          variableValues |-> [questions |-> FormattedQuestions(p.questions)]]

\* handleCall up to its await: setCallStatus(CONNECTING), then vapi.start is
\* requested.  A new session begins here.
HandleCall ==
    /\ CallButtonShown
    /\ pendingStarts < MaxPending
    /\ Commit(CONNECTING, messages, errorMessage, FALSE, 0, 0)
    /\ pendingStarts' = pendingStarts + 1
    /\ started' = TRUE
    /\ stopRequested' = FALSE
    /\ startRequest' = Some(StartRequest(type, props))
    /\ UNCHANGED <<type, isSpeaking, mounted, delivered, payload, feedback, feedbackCalls, clock, listeners, fetched, prompt, props, accountVars>>

\* vapi.start resolves: handleCall returns
StartResolves ==
    /\ pendingStarts > 0
    /\ pendingStarts' = pendingStarts - 1
    /\ UNCHANGED <<type, started, callStatus, messages, errorMessage, isSpeaking, mounted,
                   stopRequested, inflight, synthCalls, exitRuns, request, lastNav, delivered, payload, feedback, feedbackCalls, clock, listeners, fetched, prompt, startVars, accountVars>>

\* the catch block of handleCall ending the call as onError does
StartRejects_Finishes(error) ==
    /\ pendingStarts > 0
    /\ pendingStarts' = pendingStarts - 1
    /\ IF mounted
       THEN Commit(FINISHED, messages, Some(StartFailedText(error)), FALSE, synthCalls, exitRuns)
       ELSE UNCHANGED <<callStatus, messages, errorMessage, lastNav, inflight, synthCalls, exitRuns, request>>
    /\ UNCHANGED <<type, started, isSpeaking, mounted, stopRequested, delivered, payload, feedback, feedbackCalls, clock, listeners, fetched, prompt, startVars, accountVars>>

\* the catch block of handleCall also clearing the transcript
StartRejects_ClearsTranscript(error) ==
    /\ pendingStarts > 0
    /\ pendingStarts' = pendingStarts - 1
    /\ IF mounted
       THEN Commit(INACTIVE, <<>>, Some(StartFailedText(error)), messages # <<>>, synthCalls, exitRuns)
       ELSE UNCHANGED <<callStatus, messages, errorMessage, lastNav, inflight, synthCalls, exitRuns, request>>
    /\ UNCHANGED <<type, started, isSpeaking, mounted, stopRequested, delivered, payload, feedback, feedbackCalls, clock, listeners, fetched, prompt, startVars, accountVars>>

\* vapi.start rejects: the catch block of handleCall (state updates on an
\* unmounted component are dropped)
StartRejects(error) ==
    /\ pendingStarts > 0
    /\ pendingStarts' = pendingStarts - 1
    /\ IF mounted
       THEN Commit(INACTIVE, messages, Some(StartFailedText(error)), FALSE, synthCalls, exitRuns)
       ELSE UNCHANGED <<callStatus, messages, errorMessage, lastNav, inflight, synthCalls, exitRuns, request>>
    /\ UNCHANGED <<type, started, isSpeaking, mounted, stopRequested, delivered, payload, feedback, feedbackCalls, clock, listeners, fetched, prompt, startVars, accountVars>>

\* handleDisconnect ending the session itself
HandleDisconnect_Finishes ==
    /\ EndButtonShown
    /\ stopRequested' = TRUE
    /\ Commit(FINISHED, messages, errorMessage, FALSE, synthCalls, exitRuns)
    /\ UNCHANGED <<type, started, isSpeaking, mounted, pendingStarts, delivered, payload, feedback, feedbackCalls, clock, listeners, fetched, prompt, startVars, accountVars>>

\* handleDisconnect: vapi.stop()
HandleDisconnect ==
    /\ EndButtonShown
    /\ stopRequested' = TRUE
    /\ UNCHANGED <<type, started, callStatus, messages, errorMessage, isSpeaking, mounted,
                   pendingStarts, inflight, synthCalls, exitRuns, request, lastNav, delivered, payload, feedback, feedbackCalls, clock, listeners, fetched, prompt, startVars, accountVars>>

\* Try Again without setMessages([])
TryAgain_KeepsTranscript ==
    /\ RetryButtonShown
    /\ Commit(INACTIVE, messages, None, FALSE, 0, 0)
    /\ UNCHANGED <<type, started, isSpeaking, mounted, pendingStarts, stopRequested,
                   delivered, payload, feedback, feedbackCalls, clock, listeners, fetched, prompt, startVars, accountVars>>

\* onClick of Try Again
TryAgain ==
    /\ RetryButtonShown
    /\ Commit(INACTIVE, <<>>, None, TRUE, 0, 0)
    /\ delivered' = <<>>
    /\ UNCHANGED <<type, started, isSpeaking, mounted, pendingStarts, stopRequested, payload, feedback, feedbackCalls, clock, listeners, fetched, prompt, startVars, accountVars>>

\* createFeedback, its result by the outcome of generateObject and of the
\* Firestore add
CreateFeedbackResult(generated, saved) ==
    IF generated /\ saved
    THEN [success |-> TRUE, feedbackId |-> Some(<<"feedback-id">>)]
    ELSE [success |-> FALSE, feedbackId |-> None]

\* handleGenerateFeedback after its await
FeedbackCompletes(generated, saved) ==
    /\ inflight > 0
    /\ inflight' = inflight - 1
    /\ LET result == CreateFeedbackResult(generated, saved)
       IN  lastNav' = IF result.success /\ Truthy(result.feedbackId) THEN FEEDBACK ELSE HOME
    \* the parameters are kept for as long as a call is awaited
    /\ request' = IF inflight = 1 THEN None ELSE request
    /\ UNCHANGED <<type, started, callStatus, messages, errorMessage, isSpeaking, mounted,
                   pendingStarts, stopRequested, synthCalls, exitRuns, delivered, payload,
                   feedback, feedbackCalls, clock, listeners, fetched, prompt, startVars, accountVars>>

\* a cleanup that leaves the error handler registered
Unmount_LeavesError ==
    /\ mounted
    /\ mounted' = FALSE
    /\ listeners' = OffAll(listeners, SubSeq(Registrations, 1, 5))
    /\ UNCHANGED <<type, started, callStatus, messages, errorMessage, isSpeaking, pendingStarts,
                   stopRequested, inflight, synthCalls, exitRuns, request, lastNav, delivered,
                   payload, feedback, feedbackCalls, clock, fetched, prompt, startVars, accountVars>>

\* cleanup of the listener useEffect: the six vapi.off calls
Unmount ==
    /\ mounted
    /\ mounted' = FALSE
    /\ listeners' = OffAll(listeners, Registrations)
    /\ UNCHANGED <<type, started, callStatus, messages, errorMessage, isSpeaking, pendingStarts,
                   stopRequested, inflight, synthCalls, exitRuns, request, lastNav, delivered,
                   payload, feedback, feedbackCalls, clock, fetched, prompt, startVars, accountVars>>

Next ==
    \/ OnCallStart
    \/ OnCallEnd
    \/ \E message \in MessageEvents : OnMessage(message)
    \/ OnSpeechStart
    \/ OnSpeechEnd
    \/ \E error \in ErrorPayloads : OnError(error)
    \/ HandleCall
    \/ StartResolves
    \/ \E error \in StartErrors : StartRejects(error)
    \/ HandleDisconnect
    \/ TryAgain
    \/ \E generated \in BOOLEAN, saved \in BOOLEAN : FeedbackCompletes(generated, saved)
    \/ Unmount

Spec == Init /\ [][Next]_vars

TypeOK ==
    /\ type \in {"generate", "interview"}
    /\ callStatus \in CallStatus
    /\ isSpeaking \in BOOLEAN
    /\ mounted \in BOOLEAN
    /\ started \in BOOLEAN
    /\ stopRequested \in BOOLEAN
    /\ pendingStarts \in 0..MaxPending
    /\ inflight \in 0..MaxInflight
    /\ synthCalls \in 0..MaxCount
    /\ exitRuns \in 0..MaxCount
    /\ Len(messages) <= MaxDelivered
    /\ Len(delivered) <= MaxDelivered

----------------------------------------------------------------------------
(* The error classifier on its own: one payload, drawn from every short     *)
(* message, is delivered to onError of a session that is Connecting or      *)
(* Active; Try Again resets the session so the payload is delivered again.  *)

InitClassifier ==
    /\ type \in {"generate", "interview"}
    /\ callStatus \in {CONNECTING, ACTIVE}
    /\ messages = <<>>
    /\ errorMessage = None
    /\ isSpeaking = FALSE
    /\ mounted = TRUE
    /\ started = TRUE
    /\ pendingStarts = (IF callStatus = CONNECTING THEN 1 ELSE 0)
    /\ stopRequested = FALSE
    /\ inflight = 0
    /\ synthCalls = 0
    /\ exitRuns = 0
    /\ lastNav = "none"
    /\ delivered = <<>>
    /\ payload \in AllPayloads
    /\ feedback = {}
    /\ feedbackCalls = [c \in CallSlots |-> NoCall]
    /\ clock = 0
    /\ listeners = Registered
    /\ request = None
    /\ fetched = None
    /\ prompt = None
    /\ props = MountedProps
    /\ startRequest = None
    /\ users = NoUsers
    /\ signUpCalls = [c \in CallSlots |-> NoSignUp]

DeliverPayload == OnError(payload)

NextClassifier ==
    \/ DeliverPayload
    \/ TryAgain

SpecClassifier == InitClassifier /\ [][NextClassifier]_vars

----------------------------------------------------------------------------
(* createFeedback (lib/actions/general.action.ts) and its caller            *)
(* handleGenerateFeedback, one action per segment between two awaits.  The  *)
(* session that calls is an interview session in FINISHED; each call under  *)
(* way occupies a call slot until its caller has navigated.                 *)

sessionVars == <<type, callStatus, messages, errorMessage, isSpeaking, mounted, started,
                 pendingStarts, stopRequested, inflight, synthCalls, exitRuns, request, delivered,
                 payload, listeners, fetched, prompt>>

InitFeedback ==
    /\ type = "interview"
    /\ callStatus = FINISHED
    /\ messages \in Transcripts
    /\ errorMessage = None
    /\ isSpeaking = FALSE
    /\ mounted = TRUE
    /\ started = TRUE
    /\ pendingStarts = 0
    /\ stopRequested = FALSE
    /\ inflight = 0
    /\ synthCalls = 0
    /\ exitRuns = 0
    /\ lastNav = "none"
    /\ delivered = <<>>
    /\ payload = [message |-> None]
    /\ feedback = {}
    /\ feedbackCalls = [c \in CallSlots |-> NoCall]
    /\ clock = 0
    /\ listeners = Registered
    /\ request = None
    /\ fetched = None
    /\ prompt = None
    /\ props = MountedProps
    /\ startRequest = None
    /\ users = NoUsers
    /\ signUpCalls = [c \in CallSlots |-> NoSignUp]

\* the calls that have not returned yet
Running == {c \in CallSlots : feedbackCalls[c].pc \in {"generating", "saving"}}

\* ids of the documents of the collection
StoredIds == {d.id : d \in feedback}

\* return of createFeedback: the value the caller's await resolves with
Returned(call, result, failed) ==
    [call EXCEPT !.pc = "returned", !.document = None, !.failed = failed,
                 !.result = Some(result)]

\* handleGenerateFeedback calls createFeedback, which destructures params,
\* formats the transcript and awaits generateObject
CallCreateFeedback(c, params) ==
    /\ feedbackCalls[c].pc = "idle"
    /\ \A d \in CallSlots : d < c => feedbackCalls[d].pc # "idle"
    /\ Cardinality(feedback) + Cardinality(Running) < MaxRecords
    /\ feedbackCalls' = [feedbackCalls EXCEPT ![c] = [NoCall EXCEPT !.pc = "generating", !.params = Some(params)]]
    /\ UNCHANGED <<feedback, clock, lastNav, sessionVars, startVars, accountVars>>

\* generateObject resolves without createdAt being taken at the write
GenerationResolves_StampsZero(c, object) ==
    /\ feedbackCalls[c].pc = "generating"
    /\ LET params == feedbackCalls[c].params[1]
           document == [interviewId |-> params.interviewId,
                        userId |-> params.userId,
                        totalScore |-> object.totalScore,
                        categoryScores |-> object.categoryScores,
                        strengths |-> object.strengths,
                        areasForImprovement |-> object.areasForImprovement,
                        finalAssessment |-> object.finalAssessment,
                        createdAt |-> 0]
       IN  feedbackCalls' = [feedbackCalls EXCEPT ![c] = [@ EXCEPT !.pc = "saving",
                                                   !.document = Some(document),
                                                   !.adds = @ + 1]]
    /\ UNCHANGED <<feedback, clock, lastNav, sessionVars, startVars, accountVars>>

\* generateObject resolves: the object is destructured and
\* db.collection('feedback').add is called with the document, createdAt
\* being new Date().toISOString() at that moment
GenerationResolves(c, object) ==
    /\ feedbackCalls[c].pc = "generating"
    /\ LET params == feedbackCalls[c].params[1]
           document == [interviewId |-> params.interviewId,
                        userId |-> params.userId,
                        totalScore |-> object.totalScore,
                        categoryScores |-> object.categoryScores,
                        strengths |-> object.strengths,
                        areasForImprovement |-> object.areasForImprovement,
                        finalAssessment |-> object.finalAssessment,
                        createdAt |-> clock]
       IN  feedbackCalls' = [feedbackCalls EXCEPT ![c] = [@ EXCEPT !.pc = "saving",
                                                   !.document = Some(document),
                                                   !.adds = @ + 1]]
    /\ UNCHANGED <<feedback, clock, lastNav, sessionVars, startVars, accountVars>>

\* generateObject rejects and the rejection leaves createFeedback
GenerationRejects_Propagates(c, failure) ==
    /\ feedbackCalls[c].pc = "generating"
    /\ feedbackCalls' = [feedbackCalls EXCEPT ![c] = [@ EXCEPT !.pc = "raised", !.failed = "generation"]]
    /\ UNCHANGED <<feedback, clock, lastNav, sessionVars, startVars, accountVars>>

\* generateObject rejects and the catch block still writes a document
GenerationRejects_StillSaves(c, failure) ==
    /\ feedbackCalls[c].pc = "generating"
    /\ feedbackCalls' = [feedbackCalls EXCEPT ![c] = [Returned(@, [success |-> FALSE, feedbackId |-> None],
                                               "generation") EXCEPT !.adds = @ + 1]]
    /\ UNCHANGED <<feedback, clock, lastNav, sessionVars, startVars, accountVars>>

\* generateObject rejects (a thrown error, or an object that does not match
\* feedbackSchema): the catch block returns { success: false }
GenerationRejects(c, failure) ==
    /\ feedbackCalls[c].pc = "generating"
    /\ feedbackCalls' = [feedbackCalls EXCEPT ![c] = Returned(@, [success |-> FALSE, feedbackId |-> None],
                                              "generation")]
    /\ UNCHANGED <<feedback, clock, lastNav, sessionVars, startVars, accountVars>>

\* the add resolves and replaces the document of the same interview and user
AddResolves_Replaces(c, id) ==
    /\ feedbackCalls[c].pc = "saving"
    /\ id \in FeedbackIds \ StoredIds
    /\ LET document == feedbackCalls[c].document[1]
           stored == [id |-> id,
                      interviewId |-> document.interviewId,
                      userId |-> document.userId,
                      totalScore |-> document.totalScore,
                      categoryScores |-> document.categoryScores,
                      strengths |-> document.strengths,
                      areasForImprovement |-> document.areasForImprovement,
                      finalAssessment |-> document.finalAssessment,
                      createdAt |-> document.createdAt]
           same == {d \in feedback : d.interviewId = document.interviewId
                                     /\ d.userId = document.userId}
       IN  /\ feedback' = (feedback \ same) \cup {stored}
           /\ feedbackCalls' = [feedbackCalls EXCEPT ![c] = Returned(@, [success |-> TRUE, feedbackId |-> Some(id)],
                                                     "none")]
    /\ UNCHANGED <<clock, lastNav, sessionVars, startVars, accountVars>>

\* the add resolves: the collection holds the document under a new id, and
\* createFeedback returns { success: true, feedbackId: feedback.id }
AddResolves(c, id) ==
    /\ feedbackCalls[c].pc = "saving"
    /\ id \in FeedbackIds \ StoredIds
    /\ LET document == feedbackCalls[c].document[1]
           stored == [id |-> id,
                      interviewId |-> document.interviewId,
                      userId |-> document.userId,
                      totalScore |-> document.totalScore,
                      categoryScores |-> document.categoryScores,
                      strengths |-> document.strengths,
                      areasForImprovement |-> document.areasForImprovement,
                      finalAssessment |-> document.finalAssessment,
                      createdAt |-> document.createdAt]
       IN  /\ feedback' = feedback \cup {stored}
           /\ feedbackCalls' = [feedbackCalls EXCEPT ![c] = Returned(@, [success |-> TRUE, feedbackId |-> Some(id)],
                                                     "none")]
    /\ UNCHANGED <<clock, lastNav, sessionVars, startVars, accountVars>>

\* the add rejects and the write is attempted again
AddRejects_Retries(c) ==
    /\ feedbackCalls[c].pc = "saving"
    /\ feedbackCalls' = [feedbackCalls EXCEPT ![c] = [@ EXCEPT !.adds = Saturate(@)]]
    /\ UNCHANGED <<feedback, clock, lastNav, sessionVars, startVars, accountVars>>

\* the add rejects: the catch block returns { success: false }
AddRejects(c) ==
    /\ feedbackCalls[c].pc = "saving"
    /\ feedbackCalls' = [feedbackCalls EXCEPT ![c] = Returned(@, [success |-> FALSE, feedbackId |-> None],
                                              "persistence")]
    /\ UNCHANGED <<feedback, clock, lastNav, sessionVars, startVars, accountVars>>

\* handleGenerateFeedback pushing the feedback page whatever the result
CallerNavigates_IgnoresResult(c) ==
    /\ feedbackCalls[c].pc = "returned"
    /\ lastNav' = FeedbackPath(feedbackCalls[c].params[1].interviewId)
    /\ feedbackCalls' = [feedbackCalls EXCEPT ![c] = NoCall]
    /\ UNCHANGED <<feedback, clock, sessionVars, startVars, accountVars>>

\* handleGenerateFeedback whose else branch only logs the error
CallerNavigates_SilentOnFailure(c) ==
    /\ feedbackCalls[c].pc = "returned"
    /\ LET result == feedbackCalls[c].result[1]
       IN  lastNav' = IF result.success /\ Truthy(result.feedbackId)
                      THEN FeedbackPath(feedbackCalls[c].params[1].interviewId)
                      ELSE lastNav
    /\ feedbackCalls' = [feedbackCalls EXCEPT ![c] = NoCall]
    /\ UNCHANGED <<feedback, clock, sessionVars, startVars, accountVars>>

\* handleGenerateFeedback after its await; the interviewId of the pushed
\* path is the prop that was passed to createFeedback
CallerNavigates(c) ==
    /\ feedbackCalls[c].pc = "returned"
    /\ LET result == feedbackCalls[c].result[1]
       IN  lastNav' = IF result.success /\ Truthy(result.feedbackId)
                      THEN FeedbackPath(feedbackCalls[c].params[1].interviewId)
                      ELSE HOME
    /\ feedbackCalls' = [feedbackCalls EXCEPT ![c] = NoCall]
    /\ UNCHANGED <<feedback, clock, sessionVars, startVars, accountVars>>

\* time passes on the server
Tick ==
    /\ clock < MaxClock
    /\ clock' = clock + 1
    /\ UNCHANGED <<feedback, feedbackCalls, lastNav, sessionVars, startVars, accountVars>>

NextFeedback ==
    \/ \E c \in CallSlots, params \in CreateFeedbackParams : CallCreateFeedback(c, params)
    \/ \E c \in CallSlots, object \in GeneratedObjects : GenerationResolves(c, object)
    \/ \E c \in CallSlots, failure \in GenerationFailures : GenerationRejects(c, failure)
    \/ \E c \in CallSlots, id \in FeedbackIds : AddResolves(c, id)
    \/ \E c \in CallSlots : AddRejects(c)
    \/ \E c \in CallSlots : CallerNavigates(c)
    \/ Tick

SpecFeedback == InitFeedback /\ [][NextFeedback]_vars

\* generateObject and the Firestore add settle (with a value or an error), and
\* the code after an await runs once the awaited promise has settled
FairFeedback ==
    \A c \in CallSlots :
        /\ WF_vars(\/ \E object \in GeneratedObjects : GenerationResolves(c, object)
                   \/ \E failure \in GenerationFailures : GenerationRejects(c, failure))
        /\ WF_vars((\E id \in FeedbackIds : AddResolves(c, id)) \/ AddRejects(c))
        /\ WF_vars(CallerNavigates(c))

\* the steps of the calls; the server's clock, which no step of a call waits
\* for, stands still
NextFeedbackLive ==
    \/ \E c \in CallSlots, params \in CreateFeedbackParams : CallCreateFeedback(c, params)
    \/ \E c \in CallSlots, object \in GeneratedObjects : GenerationResolves(c, object)
    \/ \E c \in CallSlots, failure \in GenerationFailures : GenerationRejects(c, failure)
    \/ \E c \in CallSlots, id \in FeedbackIds : AddResolves(c, id)
    \/ \E c \in CallSlots : AddRejects(c)
    \/ \E c \in CallSlots : CallerNavigates(c)

SpecFeedbackLive == InitFeedback /\ [][NextFeedbackLive]_vars /\ FairFeedback

TypeOKFeedback ==
    /\ clock \in 0..MaxClock
    /\ Cardinality(feedback) <= MaxRecords
    /\ \A c \in CallSlots :
          /\ feedbackCalls[c].pc \in {"idle", "generating", "saving", "returned", "raised"}
          /\ feedbackCalls[c].failed \in {"none", "generation", "persistence"}

----------------------------------------------------------------------------
(* getFeedbackByInterviewId (lib/actions/general.action.ts) on its own: the  *)
(* collection is any set of documents createFeedback can have stored, and    *)
(* every query is put to it.                                                 *)

agentVars == <<type, callStatus, messages, errorMessage, isSpeaking, mounted, started,
               pendingStarts, stopRequested, inflight, synthCalls, exitRuns, request,
               lastNav, delivered, payload, listeners>>

\* the session an action of the server is called from: an interview session
\* in FINISHED
InitSession ==
    /\ type = "interview"
    /\ callStatus = FINISHED
    /\ messages \in Transcripts
    /\ errorMessage = None
    /\ isSpeaking = FALSE
    /\ mounted = TRUE
    /\ started = TRUE
    /\ pendingStarts = 0
    /\ stopRequested = FALSE
    /\ inflight = 0
    /\ synthCalls = 0
    /\ exitRuns = 0
    /\ lastNav = "none"
    /\ delivered = <<>>
    /\ payload = [message |-> None]
    /\ listeners = Registered
    /\ request = None

\* totalScore is a number of the schema: two of them tell documents apart
StoredScores == {40, 85}

\* the documents createFeedback can store under an id
StoredDocuments(id) ==
    {[id |-> id,
      interviewId |-> p.interviewId,
      userId |-> p.userId,
      totalScore |-> score,
      categoryScores |-> o.categoryScores,
      strengths |-> o.strengths,
      areasForImprovement |-> o.areasForImprovement,
      finalAssessment |-> o.finalAssessment,
      createdAt |-> 0] : p \in CreateFeedbackParams, o \in GeneratedObjects, score \in StoredScores}

\* the collections of at most MaxRecords documents, ids distinct
Collections ==
    {c \in SUBSET (UNION {StoredDocuments(id) : id \in FeedbackIds}) :
        \A d1 \in c, d2 \in c : d1.id = d2.id => d1 = d2}

GetFeedbackByInterviewIdParams == [interviewId : InterviewIds, userId : UserIds]

InitRead ==
    /\ InitSession
    /\ feedback \in Collections
    /\ feedbackCalls = [c \in CallSlots |-> NoCall]
    /\ clock = 0
    /\ fetched = None
    /\ prompt = None
    /\ props = MountedProps
    /\ startRequest = None
    /\ users = NoUsers
    /\ signUpCalls = [c \in CallSlots |-> NoSignUp]

\* the query without the userId filter
FeedbackQuery_InterviewOnly(collection, params) ==
    {d \in collection : d.interviewId = params.interviewId}

\* db.collection('feedback').where('interviewId', '==', interviewId)
\*                          .where('userId', '==', userId)
FeedbackQuery(collection, params) ==
    {d \in collection : d.interviewId = params.interviewId /\ d.userId = params.userId}

\* getFeedbackByInterviewId: limit(1).get() gives one of the matching
\* documents, which of them is for Firestore to choose; null if there is none
GetFeedbackByInterviewId(params) ==
    /\ LET matching == FeedbackQuery(feedback, params)
       IN  IF matching = {}
           THEN fetched' = Some([params |-> params, result |-> None])
           ELSE \E feedbackDoc \in matching :
                   fetched' = Some([params |-> params, result |-> Some(feedbackDoc)])
    /\ UNCHANGED <<agentVars, feedback, feedbackCalls, clock, prompt, startVars, accountVars>>

NextRead == \E params \in GetFeedbackByInterviewIdParams : GetFeedbackByInterviewId(params)

SpecRead == InitRead /\ [][NextRead]_vars

----------------------------------------------------------------------------
(* The prompt of createFeedback on its own: every transcript of at most      *)
(* MaxDelivered entries is formatted.                                        *)

SavedRoles == {"user", "system", "assistant"}

SavedContents == {"I know React", "Good, next question", ""}

SavedMessages == [role : SavedRoles, content : SavedContents]

InitPrompt ==
    /\ type = "interview"
    /\ callStatus = FINISHED
    /\ messages \in SeqsUpTo(SavedMessages, MaxDelivered)
    /\ errorMessage = None
    /\ isSpeaking = FALSE
    /\ mounted = TRUE
    /\ started = TRUE
    /\ pendingStarts = 0
    /\ stopRequested = FALSE
    /\ inflight = 0
    /\ synthCalls = 0
    /\ exitRuns = 0
    /\ lastNav = "none"
    /\ delivered = <<>>
    /\ payload = [message |-> None]
    /\ listeners = Registered
    /\ request = None
    /\ feedback = {}
    /\ feedbackCalls = [c \in CallSlots |-> NoCall]
    /\ clock = 0
    /\ fetched = None
    /\ prompt = None
    /\ props = MountedProps
    /\ startRequest = None
    /\ users = NoUsers
    /\ signUpCalls = [c \in CallSlots |-> NoSignUp]

\* the text of the prompt before and after the transcript
PROMPT_HEAD == "You are an AI interviewer analyzing a mock interview. [...] Transcript:\n"

PROMPT_TAIL == "Please score the candidate from 0 to 100 in the following areas. [...]"

\* the transcript formatted last entry first
RECURSIVE FormatTranscript_Reversed(_)
FormatTranscript_Reversed(transcript) ==
    IF transcript = <<>> THEN <<>>
    ELSE FormatTranscript_Reversed(Tail(transcript))
         \o <<"- ", Head(transcript).role, ": ", Head(transcript).content, "\n">>

\* transcript.map((sentence) => `- ${sentence.role}: ${sentence.content}\n`).join('')
RECURSIVE FormatTranscript(_)
FormatTranscript(transcript) ==
    IF transcript = <<>> THEN <<>>
    ELSE <<"- ", Head(transcript).role, ": ", Head(transcript).content, "\n">>
         \o FormatTranscript(Tail(transcript))

\* createFeedback up to its generateObject call: the prompt it sends
BuildPrompt ==
    /\ prompt' = Some(<<PROMPT_HEAD>> \o FormatTranscript(messages) \o <<PROMPT_TAIL>>)
    /\ UNCHANGED <<agentVars, feedback, feedbackCalls, clock, fetched, startVars, accountVars>>

\* the next transcript is formatted
NextTranscript ==
    /\ prompt # None
    /\ \E transcript \in SeqsUpTo(SavedMessages, MaxDelivered) : messages' = transcript
    /\ prompt' = None
    /\ UNCHANGED <<type, callStatus, errorMessage, isSpeaking, mounted, started, pendingStarts,
                   stopRequested, inflight, synthCalls, exitRuns, request, lastNav, delivered,
                   payload, listeners, feedback, feedbackCalls, clock, fetched, startVars, accountVars>>

NextPrompt ==
    \/ BuildPrompt
    \/ NextTranscript

SpecPrompt == InitPrompt /\ [][NextPrompt]_vars

----------------------------------------------------------------------------
(* The start request of handleCall on its own: the component is mounted      *)
(* in either mode with every choice of the props userName, userId and        *)
(* questions, and calls are started.                                         *)

AgentProps ==
    [userName : {None, Some("Test User")},
     userId : {None, Some("user-1")},
     questions : {None} \cup {Some(q) : q \in SeqsUpTo(Questions, MaxQuestions)}]

InitStart ==
    /\ type \in {"generate", "interview"}
    /\ callStatus = INACTIVE
    /\ messages = <<>>
    /\ errorMessage = None
    /\ isSpeaking = FALSE
    /\ mounted = TRUE
    /\ started = FALSE
    /\ pendingStarts = 0
    /\ stopRequested = FALSE
    /\ inflight = 0
    /\ synthCalls = 0
    /\ exitRuns = 0
    /\ lastNav = "none"
    /\ delivered = <<>>
    /\ payload = [message |-> None]
    /\ feedback = {}
    /\ feedbackCalls = [c \in CallSlots |-> NoCall]
    /\ clock = 0
    /\ listeners = Registered
    /\ request = None
    /\ fetched = None
    /\ prompt = None
    /\ props \in AgentProps
    /\ startRequest = None
    /\ users = NoUsers
    /\ signUpCalls = [c \in CallSlots |-> NoSignUp]

NextStart ==
    \/ HandleCall
    \/ StartResolves
    \/ \E error \in StartErrors : StartRejects(error)

SpecStart == InitStart /\ [][NextStart]_vars

----------------------------------------------------------------------------
(* signUp (lib/actions/auth.action.ts), one action per segment between two   *)
(* awaits.  The users collection holds any documents beforehand and each     *)
(* call slot makes one call, whose result stays to be looked at.             *)

UserDocuments == [name : {"Ada", "Bob"}, email : {"ada@example.com", "bob@example.com"}]

\* what a rejected Firestore call carries as e.code
ErrorCodes == {"auth/email-already-exists", "unavailable"}

ALREADY_EXISTS == "User already exists. Please sign in instead."

CREATED == "Account created successfully. Please sign in."

EMAIL_IN_USE == "This email is already in use."

FAILED == "Failed to create an account"

InitSignUp ==
    /\ InitSession
    /\ feedback = {}
    /\ feedbackCalls = [c \in CallSlots |-> NoCall]
    /\ clock = 0
    /\ fetched = None
    /\ prompt = None
    /\ props = MountedProps
    /\ startRequest = None
    /\ users \in [Uids -> {None} \cup {Some(d) : d \in UserDocuments}]
    /\ signUpCalls = [c \in CallSlots |-> NoSignUp]

\* return of signUp
SignUpReturned(call, success, message) ==
    [call EXCEPT !.pc = "returned", !.result = Some([success |-> success, message |-> message])]

\* the catch block of signUp
SignUpCaught(call, code) ==
    SignUpReturned(call, FALSE, IF code = "auth/email-already-exists" THEN EMAIL_IN_USE ELSE FAILED)

\* signUp is called: params is destructured and the get of the uid's document
\* is awaited
CallSignUp(c, params) ==
    /\ signUpCalls[c].pc = "idle"
    /\ \A d \in CallSlots : d < c => signUpCalls[d].pc # "idle"
    /\ signUpCalls' = [signUpCalls EXCEPT ![c] = [NoSignUp EXCEPT !.pc = "reading", !.params = Some(params)]]
    /\ UNCHANGED <<agentVars, feedback, feedbackCalls, clock, actionVars, startVars, users>>

\* the get resolves: with an existing document signUp returns, otherwise the
\* set is awaited
GetResolves(c) ==
    /\ signUpCalls[c].pc = "reading"
    /\ LET userRecord == users[signUpCalls[c].params[1].uid]
       IN  signUpCalls' = [signUpCalls EXCEPT ![c] =
                              IF userRecord # None
                              THEN SignUpReturned(@, FALSE, ALREADY_EXISTS)
                              ELSE [@ EXCEPT !.pc = "writing"]]
    /\ UNCHANGED <<agentVars, feedback, feedbackCalls, clock, actionVars, startVars, users>>

\* the get rejects
GetRejects(c, code) ==
    /\ signUpCalls[c].pc = "reading"
    /\ signUpCalls' = [signUpCalls EXCEPT ![c] = SignUpCaught(@, code)]
    /\ UNCHANGED <<agentVars, feedback, feedbackCalls, clock, actionVars, startVars, users>>

\* the set resolves: the document of the uid is { name, email }, whatever it
\* was, and signUp returns success
SetResolves(c) ==
    /\ signUpCalls[c].pc = "writing"
    /\ LET params == signUpCalls[c].params[1]
       IN  users' = [users EXCEPT ![params.uid] = Some([name |-> params.name, email |-> params.email])]
    /\ signUpCalls' = [signUpCalls EXCEPT ![c] = SignUpReturned(@, TRUE, CREATED)]
    /\ UNCHANGED <<agentVars, feedback, feedbackCalls, clock, actionVars, startVars>>

\* the set rejects
SetRejects(c, code) ==
    /\ signUpCalls[c].pc = "writing"
    /\ signUpCalls' = [signUpCalls EXCEPT ![c] = SignUpCaught(@, code)]
    /\ UNCHANGED <<agentVars, feedback, feedbackCalls, clock, actionVars, startVars, users>>

NextSignUp ==
    \/ \E c \in CallSlots, params \in SignUpParams : CallSignUp(c, params)
    \/ \E c \in CallSlots : GetResolves(c)
    \/ \E c \in CallSlots, code \in ErrorCodes : GetRejects(c, code)
    \/ \E c \in CallSlots : SetResolves(c)
    \/ \E c \in CallSlots, code \in ErrorCodes : SetRejects(c, code)

SpecSignUp == InitSignUp /\ [][NextSignUp]_vars

----------------------------------------------------------------------------
(* Claims *)

IsStartFailure(err) == \E e \in StartErrors : err = Some(StartFailedText(e))

StartRejectsStep == \E e \in StartErrors : StartRejects(e)

OnErrorStep == \E e \in ErrorPayloads : OnError(e)

\* C1: in interview mode a session that is Finished with a non-empty
\* transcript has invoked createFeedback exactly once
C1_SynthesisExactlyOnce ==
    (type = "interview" /\ callStatus = FINISHED /\ Len(messages) > 0) => synthCalls = 1

\* C2: the exit handler acts (navigates or starts synthesis) at most once per
\* session, in both modes
C2_ExitHandlerAtMostOnce == exitRuns <= 1

C4_LateMessageInert ==
    [][(callStatus = FINISHED /\ \E m \in FinalEvents : OnMessage(m))
          => /\ Len(messages') = Len(messages) + 1
             /\ callStatus' = FINISHED
             /\ inflight' = inflight
             /\ lastNav' = lastNav
             /\ exitRuns' = exitRuns]_vars

IsFinal(message) == message.type = "transcript" /\ message.transcriptType = "final"

FinalsOf(events) ==
    LET finals == SelectSeq(events, IsFinal)
    IN  [i \in 1..Len(finals) |-> [role |-> finals[i].role, content |-> finals[i].transcript]]

C6_StartFailureReturnsToIdle ==
    [][/\ (mounted /\ StartRejectsStep)
            => /\ callStatus' = INACTIVE
               /\ Truthy(errorMessage')
               /\ CallButtonShown'
               /\ pendingStarts' < MaxPending
       /\ HandleCall => callStatus' = CONNECTING]_vars

C6_Witness ==
    /\ callStatus = INACTIVE
    /\ IsStartFailure(errorMessage)
    /\ pendingStarts = 0
    /\ mounted

\* C7: a start request made after a failed start begins with no error
\* attached and an empty transcript
C7_RetryHasNoResidue ==
    [][(HandleCall /\ IsStartFailure(errorMessage))
          => (errorMessage' = None /\ messages' = <<>>)]_vars

KindOf(text) ==
    IF text = REMOTE_TERMINATION_TEXT THEN "RemoteTermination"
    ELSE IF text = UNKNOWN_TEXT THEN "Unknown"
    ELSE IF Len(text) >= 2 /\ text[1] = "An error occurred: " /\ text[Len(text)] = ". Please try again."
    THEN "TransportFailure"
    ELSE "none"

\* C8: the surfaced text follows the first-match rule over the payload's
\* message, and is one of the three outcomes
C8_ClassifierFirstMatch ==
    errorMessage # None =>
        LET m == payload.message
            text == errorMessage[1]
        IN  /\ IF m # None /\ (Includes(m[1], MeetingHasEnded) \/ Includes(m[1], MeetingEnded))
               THEN text = <<"The interview session ended unexpectedly. Please try again.">>
               ELSE IF m # None /\ m[1] # <<>>
               THEN text = <<"An error occurred: ">> \o m[1] \o <<". Please try again.">>
               ELSE text = <<"An unexpected error occurred. Please try again.">>
            /\ KindOf(text) \in {"RemoteTermination", "TransportFailure", "Unknown"}

C8_Witness ==
    /\ errorMessage = Some(REMOTE_TERMINATION_TEXT)
    /\ payload.message = Some(<<"meeting", "Meeting", " ended">>)

\* C9: a message containing 'Meeting has ended' is RemoteTermination, any
\* other non-empty message is TransportFailure, an empty or absent one Unknown
C9_KindByHasEndedOnly ==
    errorMessage # None =>
        LET m == payload.message
        IN  KindOf(errorMessage[1]) =
                IF m # None /\ Includes(m[1], MeetingHasEnded) THEN "RemoteTermination"
                ELSE IF m # None /\ m[1] # <<>> THEN "TransportFailure"
                ELSE "Unknown"

\* C9 as amended: a message containing 'Meeting has ended' or 'Meeting ended'
\* is RemoteTermination, a non-empty message containing neither is
\* TransportFailure, an empty or absent one Unknown
C9_KindByEitherSubstring ==
    errorMessage # None =>
        LET m == payload.message
            ended == m # None /\ (Includes(m[1], MeetingHasEnded) \/ Includes(m[1], MeetingEnded))
        IN  /\ ended => KindOf(errorMessage[1]) = "RemoteTermination"
            /\ (m # None /\ m[1] # <<>> /\ ~ended) => KindOf(errorMessage[1]) = "TransportFailure"
            /\ (m = None \/ m[1] = <<>>) => KindOf(errorMessage[1]) = "Unknown"

C9_Witness ==
    /\ errorMessage # None
    /\ payload.message = Some(<<"meeting", " has", " ended">>)
    /\ KindOf(errorMessage[1]) = "TransportFailure"

C11_GenerateNeverSynthesizes ==
    /\ [](type = "generate" => (inflight = 0 /\ synthCalls = 0 /\ lastNav \in {"none", HOME}))
    /\ [][(type = "generate" /\ callStatus # FINISHED /\ callStatus' = FINISHED)
             => (lastNav' = HOME /\ exitRuns' >= 1)]_vars

C11_Witness ==
    /\ type = "generate"
    /\ callStatus = FINISHED
    /\ Len(messages) > 0
    /\ Truthy(errorMessage)
    /\ lastNav = HOME
    /\ synthCalls = 0

\* C12: in interview mode a session that enters Finished with an empty
\* transcript and no error attached signals navigation home and invokes no
\* feedback synthesis
C12_EmptyInterviewGoesHome ==
    [][(/\ type = "interview"
        /\ callStatus # FINISHED
        /\ callStatus' = FINISHED
        /\ messages' = <<>>
        /\ ~Truthy(errorMessage'))
          => /\ lastNav' = HOME
             /\ exitRuns' >= 1
             /\ inflight' = inflight
             /\ synthCalls' = synthCalls]_vars

C12_Witness ==
    /\ type = "interview"
    /\ callStatus = FINISHED
    /\ messages = <<>>
    /\ errorMessage = None
    /\ lastNav = HOME
    /\ exitRuns = 1
    /\ synthCalls = 0

UserActs == TryAgain \/ HandleCall \/ HandleDisconnect \/ Unmount

FeedbackCompletesStep == \E generated \in BOOLEAN, saved \in BOOLEAN : FeedbackCompletes(generated, saved)

\* C13: in interview mode an engine error that arrives while Active with an
\* empty transcript ends the session with the error attached, and from then
\* on no synthesis is invoked and nothing is navigated until the user acts
C13_ErrorScreenStays ==
    [][/\ (type = "interview" /\ callStatus = ACTIVE /\ messages = <<>> /\ OnErrorStep)
            => (callStatus' = FINISHED /\ Truthy(errorMessage')
                /\ inflight' = inflight /\ lastNav' = lastNav)
       /\ (/\ type = "interview"
           /\ callStatus = FINISHED
           /\ messages = <<>>
           /\ Truthy(errorMessage)
           /\ ~UserActs
           /\ ~FeedbackCompletesStep)
            => (inflight' = inflight /\ synthCalls' = synthCalls /\ lastNav' = lastNav)]_vars

\* C14: Try Again resets the session to INACTIVE with an empty transcript and
\* no error, leaves the call button available, and neither navigates nor
\* invokes synthesis
C14_RetryResets ==
    [][TryAgain
          => /\ callStatus = FINISHED /\ Truthy(errorMessage)
             /\ callStatus' = INACTIVE
             /\ messages' = <<>>
             /\ errorMessage' = None
             /\ CallButtonShown'
             /\ lastNav' = lastNav
             /\ inflight' = inflight
             /\ synthCalls' = 0
             /\ exitRuns' = 0]_vars

C14_Witness ==
    /\ callStatus = INACTIVE
    /\ started
    /\ errorMessage = None
    /\ messages = <<>>
    /\ lastNav = "none"
    /\ mounted

\* C15: handleDisconnect leaves status, transcript, error and isSpeaking as
\* they are, and the status becomes Finished only by a call-end or an error
\* event (nothing local ends the session)
C15_StopIsAdvisory ==
    [][/\ HandleDisconnect => UNCHANGED <<callStatus, messages, errorMessage, isSpeaking>>
       /\ (callStatus # FINISHED /\ callStatus' = FINISHED) => (OnCallEnd \/ OnErrorStep)]_vars

C15_Witness ==
    /\ stopRequested
    /\ callStatus = ACTIVE
    /\ mounted

GenerationRejectsStep(c) == \E failure \in GenerationFailures : GenerationRejects(c, failure)

Failure == [success |-> FALSE, feedbackId |-> None]

\* C16: createFeedback never raises: a rejected generation (thrown error or
\* invalid shape) and a rejected write both end in a returned value, and
\* that value is { success: false } whenever one of the two failed
C16_CreateFeedbackNeverRaises ==
    /\ [](\A c \in CallSlots :
            /\ feedbackCalls[c].pc # "raised"
            /\ feedbackCalls[c].pc = "returned" =>
                  /\ feedbackCalls[c].result # None
                  /\ feedbackCalls[c].failed # "none" => feedbackCalls[c].result = Some(Failure))
    /\ [][\A c \in CallSlots :
            (GenerationRejectsStep(c) \/ AddRejects(c))
               => /\ feedbackCalls'[c].pc = "returned"
                  /\ feedbackCalls'[c].failed # "none"
                  /\ feedbackCalls'[c].result = Some(Failure)]_vars

C16_Witness ==
    \E c \in CallSlots, d \in CallSlots :
        /\ feedbackCalls[c].pc = "returned"
        /\ feedbackCalls[c].failed = "generation"
        /\ feedbackCalls[c].result = Some(Failure)
        /\ feedbackCalls[d].pc = "returned"
        /\ feedbackCalls[d].failed = "persistence"
        /\ feedbackCalls[d].result = Some(Failure)

\* C17: a failed generation attempts no write and leaves the stored
\* documents as they are; the result is { success: false } and the caller
\* navigates home
C17_GenerationFailureWritesNothing ==
    [][\A c \in CallSlots :
          /\ GenerationRejectsStep(c)
                => /\ feedback' = feedback
                   /\ feedbackCalls[c].adds = 0
                   /\ feedbackCalls'[c].adds = 0
                   /\ feedbackCalls'[c].document = None
                   /\ feedbackCalls'[c].pc = "returned"
                   /\ feedbackCalls'[c].result = Some(Failure)
          /\ (feedbackCalls[c].failed = "generation" /\ CallerNavigates(c))
                => (lastNav' = HOME /\ feedback' = feedback /\ feedbackCalls[c].adds = 0)]_vars

C17_Witness ==
    \E c \in CallSlots :
        /\ feedbackCalls[c].pc = "returned"
        /\ feedbackCalls[c].failed = "generation"
        /\ feedbackCalls[c].adds = 0
        /\ feedbackCalls[c].result = Some(Failure)
        /\ feedback = {}

AddResolvesStep == \E c \in CallSlots, id \in FeedbackIds : AddResolves(c, id)

\* C18: a failed write after a successful generation returns
\* { success: false } and stores nothing; the document is dropped, the write
\* was attempted exactly once and is not attempted again; the caller
\* navigates home
C18_WriteFailureDiscards ==
    /\ [](\A c \in CallSlots : feedbackCalls[c].adds <= 1)
    /\ [][\A c \in CallSlots :
            /\ AddRejects(c)
                  => /\ feedback' = feedback
                     /\ feedbackCalls[c].document # None
                     /\ feedbackCalls'[c].document = None
                     /\ feedbackCalls'[c].adds = 1
                     /\ feedbackCalls'[c].pc = "returned"
                     /\ feedbackCalls'[c].result = Some(Failure)
            /\ (feedbackCalls[c].failed = "persistence" /\ ~CallerNavigates(c))
                  => (feedbackCalls'[c] = feedbackCalls[c] /\ (feedback' = feedback \/ AddResolvesStep))
            /\ (feedbackCalls[c].failed = "persistence" /\ CallerNavigates(c))
                  => (lastNav' = HOME /\ feedback' = feedback)]_vars

C18_Witness ==
    \E c \in CallSlots :
        /\ feedbackCalls[c].pc = "returned"
        /\ feedbackCalls[c].failed = "persistence"
        /\ feedbackCalls[c].adds = 1
        /\ feedbackCalls[c].document = None
        /\ feedback = {}

\* the fields generateObject produced, as they stand in a document
GeneratedFields(d) ==
    [totalScore |-> d.totalScore,
     categoryScores |-> d.categoryScores,
     strengths |-> d.strengths,
     areasForImprovement |-> d.areasForImprovement,
     finalAssessment |-> d.finalAssessment]

\* C19: when generation and write both succeed exactly one new document is
\* stored, with the request's interviewId and userId, the generated fields
\* and the createdAt taken when the write was issued, and the result is
\* { success: true, feedbackId } with the id of that document
C19_SuccessStoresOneRecord ==
    [][\A c \in CallSlots :
          /\ \A object \in GeneratedObjects :
                GenerationResolves(c, object)
                   => /\ feedbackCalls'[c].document # None
                      /\ GeneratedFields(feedbackCalls'[c].document[1]) = object
                      /\ feedbackCalls'[c].document[1].createdAt = clock
                      /\ feedback' = feedback
          /\ \A id \in FeedbackIds :
                AddResolves(c, id)
                   => \E new \in feedback' :
                         /\ new \notin feedback
                         /\ feedback' = feedback \cup {new}
                         /\ new.id = id
                         /\ id \notin StoredIds
                         /\ new.interviewId = feedbackCalls[c].params[1].interviewId
                         /\ new.userId = feedbackCalls[c].params[1].userId
                         /\ GeneratedFields(new) = GeneratedFields(feedbackCalls[c].document[1])
                         /\ new.createdAt = feedbackCalls[c].document[1].createdAt
                         /\ feedbackCalls'[c].pc = "returned"
                         /\ feedbackCalls'[c].result = Some([success |-> TRUE, feedbackId |-> Some(new.id)])]_vars

C19_Witness ==
    \E c \in CallSlots, d \in feedback :
        /\ feedbackCalls[c].pc = "returned"
        /\ feedbackCalls[c].result = Some([success |-> TRUE, feedbackId |-> Some(d.id)])
        /\ d.interviewId = feedbackCalls[c].params[1].interviewId
        /\ d.userId = feedbackCalls[c].params[1].userId
        /\ d.createdAt = 1
        /\ d.totalScore = 85
        /\ Cardinality(feedback) = 1

\* C20: createFeedback is not idempotent: every successful call adds a
\* document under an id no stored document has, also when a document of the
\* same interview and user is stored already, and no step removes or
\* replaces a stored document
C20_NotIdempotent ==
    /\ [](\A d1 \in feedback, d2 \in feedback : d1.id = d2.id => d1 = d2)
    /\ [][/\ feedback \subseteq feedback'
          /\ \A c \in CallSlots, id \in FeedbackIds :
                AddResolves(c, id)
                   => /\ id \notin StoredIds
                      /\ Cardinality(feedback') = Cardinality(feedback) + 1
                      /\ \E new \in feedback' \ feedback : new.id = id]_vars

C20_Witness ==
    \E d1 \in feedback, d2 \in feedback :
        /\ d1.id # d2.id
        /\ d1.interviewId = d2.interviewId
        /\ d1.userId = d2.userId
        /\ GeneratedFields(d1) = GeneratedFields(d2)
        /\ d1.createdAt = d2.createdAt

\* C21: when a createFeedback call has returned, its caller pushes the
\* feedback page of the call's interviewId if the result is a success and
\* '/' if it is a failure; nothing else is ever pushed
C21_NavigationFollowsResult ==
    /\ [](lastNav \in {"none", HOME} \cup {FeedbackPath(i) : i \in InterviewIds})
    /\ [][\A c \in CallSlots :
            CallerNavigates(c)
               => LET result == feedbackCalls[c].result[1]
                  IN  /\ result.success
                         => lastNav' = FeedbackPath(feedbackCalls[c].params[1].interviewId)
                      /\ ~result.success => lastNav' = HOME
                      /\ result.success <=> feedbackCalls[c].failed = "none"]_vars

C21_Witness ==
    /\ lastNav = FeedbackPath("interview-2")
    /\ \E d \in feedback : d.interviewId = "interview-2"
    /\ \A c \in CallSlots : feedbackCalls[c].pc = "idle"

\* C22: the six handlers registered when the component mounts are each
\* removed by exactly one vapi.off call with the same handler when it
\* unmounts, in whichever call status, and none stays registered afterwards
C22_ListenersSymmetric ==
    /\ [](\A i \in 1..Len(Registrations) :
            LET e == Registrations[i].event
                h == Registrations[i].handler
            IN  /\ listeners[e].ons = 1
                /\ mounted => (listeners[e].handlers = <<h>> /\ listeners[e].offs = 0)
                /\ ~mounted => (listeners[e].handlers = <<>> /\ listeners[e].offs = 1))
    /\ [][listeners' # listeners => (Unmount /\ callStatus' = callStatus)]_vars

C22_Witness ==
    /\ ~mounted
    /\ callStatus = ACTIVE
    /\ \A e \in Events : listeners[e].handlers = <<>> /\ listeners[e].offs = 1

\* C23: getFeedbackByInterviewId returns null exactly when no stored document
\* has both the interviewId and the userId of the query, and otherwise a
\* stored document that has both, also when several match
C23_ReadIsScopedToPair ==
    fetched # None =>
        LET params == fetched[1].params
            result == fetched[1].result
            matching == {d \in feedback : d.interviewId = params.interviewId
                                          /\ d.userId = params.userId}
        IN  /\ result = None <=> matching = {}
            /\ result # None =>
                  /\ result[1] \in feedback
                  /\ result[1].interviewId = params.interviewId
                  /\ result[1].userId = params.userId

C23_Witness ==
    /\ fetched # None
    /\ fetched[1].result # None
    /\ \E d \in feedback : d.id # fetched[1].result[1].id
                           /\ d.interviewId = fetched[1].params.interviewId
                           /\ d.userId = fetched[1].params.userId

\* C24: the prompt holds, between its head and its tail, one line
\* '- <role>: <content>' per transcript entry, each ended by a newline, in
\* the order of the transcript
C24_PromptRendersTranscript ==
    prompt # None =>
        LET body == SubSeq(prompt[1], 2, Len(prompt[1]) - 1)
        IN  /\ prompt[1][1] = PROMPT_HEAD
            /\ prompt[1][Len(prompt[1])] = PROMPT_TAIL
            /\ Len(body) = 5 * Len(messages)
            /\ \A i \in 1..Len(messages) :
                  SubSeq(body, 5 * (i - 1) + 1, 5 * i)
                     = <<"- ", messages[i].role, ": ", messages[i].content, "\n">>

C24_Witness ==
    /\ prompt # None
    /\ Len(messages) = 2
    /\ messages[1] = [role |-> "user", content |-> "I know React"]
    /\ messages[2] = [role |-> "assistant", content |-> "Good, next question"]

OnMessageStep == \E message \in MessageEvents : OnMessage(message)

\* C25: every createFeedback invocation carries the props interviewId and
\* userId and the whole transcript as it stands, in arrival order; in the
\* run call-start, final messages, call-end the status goes CONNECTING,
\* ACTIVE, FINISHED and the one invocation receives all the messages
C25_RequestCarriesTranscript ==
    [][/\ inflight' = inflight + 1
            => /\ request' = Some([interviewId |-> PropInterviewId,
                                   userId |-> PropUserId,
                                   transcript |-> messages'])
               /\ messages' = FinalsOf(delivered')
       /\ HandleCall => callStatus' = CONNECTING
       /\ (OnCallStart /\ callStatus = CONNECTING) => callStatus' = ACTIVE
       /\ (/\ OnCallEnd
           /\ type = "interview"
           /\ callStatus = ACTIVE
           /\ Len(messages) > 0
           /\ synthCalls = 0)
            => /\ callStatus' = FINISHED
               /\ synthCalls' = 1
               /\ inflight' = inflight + 1
               /\ request' # None
               /\ request'[1].transcript = messages]_vars

C25_Witness ==
    /\ type = "interview"
    /\ callStatus = FINISHED
    /\ errorMessage = None
    /\ synthCalls = 1
    /\ request # None
    /\ Len(request[1].transcript) = 2
    /\ request[1].transcript = FinalsOf(delivered)
    /\ request[1].transcript[1].role # request[1].transcript[2].role

C27_TranscriptAppendOnly ==
    [][messages' # messages
          => /\ \/ /\ Len(messages') = Len(messages) + 1
                   /\ SubSeq(messages', 1, Len(messages)) = messages
                   /\ OnMessageStep
                \/ (messages' = <<>> /\ TryAgain)
             /\ ~(OnCallStart \/ OnCallEnd \/ OnErrorStep \/ OnSpeechStart \/ OnSpeechEnd
                    \/ HandleDisconnect \/ StartRejectsStep)]_vars

C27_Witness ==
    /\ Len(messages) = 2
    /\ callStatus = INACTIVE
    /\ IsStartFailure(errorMessage)

C29_ActiveOnlyFromConnecting ==
    [][(callStatus # ACTIVE /\ callStatus' = ACTIVE)
          => (OnCallStart /\ callStatus = CONNECTING)]_vars

\* C30: the status becomes FINISHED only from CONNECTING or ACTIVE, and a
\* call-end or error event received in INACTIVE leaves the status and runs
\* no exit decision
C30_FinishedOnlyFromLiveCall ==
    [][/\ (callStatus # FINISHED /\ callStatus' = FINISHED)
            => callStatus \in {CONNECTING, ACTIVE}
       /\ (callStatus = INACTIVE /\ (OnCallEnd \/ OnErrorStep))
            => (callStatus' = INACTIVE /\ exitRuns' = exitRuns)]_vars

\* C31: the stop request (the End button, the only caller of
\* handleDisconnect) is offered exactly while the status is CONNECTING or
\* ACTIVE
C31_StopWhileConnectingOrActive ==
    mounted => (EndButtonShown <=> callStatus \in {CONNECTING, ACTIVE})

\* C32: a start request is made only in INACTIVE, so that no second
\* vapi.start is requested for a session that is CONNECTING, ACTIVE or
\* FINISHED
C32_StartOnlyFromIdle ==
    [][HandleCall => callStatus = INACTIVE]_vars

\* C33: whenever a start request moves the session to CONNECTING, the
\* transcript is empty and no error is attached
C33_ConnectingStartsClean ==
    [][HandleCall => (callStatus' = CONNECTING /\ messages' = <<>> /\ errorMessage' = None)]_vars

\* C34: Try Again is not taken while a createFeedback call of the session is
\* awaited, and no completion navigates for a session that is INACTIVE or
\* CONNECTING again
C34_NoResetDuringSynthesis ==
    [][/\ TryAgain => inflight = 0
       /\ FeedbackCompletesStep => callStatus = FINISHED]_vars

C35_SynthesisEndsInNavigation ==
    /\ \A c \in CallSlots : (feedbackCalls[c].pc # "idle") ~> (feedbackCalls[c].pc = "idle")
    /\ [][/\ \A c \in CallSlots :
              (feedbackCalls[c].pc # "idle" /\ feedbackCalls'[c].pc = "idle")
                 => /\ CallerNavigates(c)
                    /\ lastNav' \in {HOME, FeedbackPath(feedbackCalls[c].params[1].interviewId)}
          /\ lastNav' # lastNav
                 => Cardinality({c \in CallSlots : feedbackCalls[c].pc # feedbackCalls'[c].pc}) = 1]_vars

C35_Witness ==
    /\ lastNav = HOME
    /\ feedback = {}
    /\ \A c \in CallSlots : feedbackCalls[c].pc = "idle"

\* C37: handleCall sets the status to CONNECTING and asks vapi.start for the
\* workflow id with username and userid in generate mode, and for the
\* interviewer with the one variable questions in interview mode: the
\* questions in their order, each as "- " and the question, a newline
\* between two of them, and the empty text when there is none
C37_StartRequestByMode ==
    [][HandleCall
          => /\ callStatus' = CONNECTING
             /\ startRequest' # None
             /\ LET r == startRequest'[1]
                IN  /\ type = "generate"
                         => /\ r.assistant = WORKFLOW_ID
                            /\ r.variableValues = [username |-> props.userName, userid |-> props.userId]
                    /\ type = "interview"
                         => /\ r.assistant = INTERVIEWER
                            /\ DOMAIN r.variableValues = {"questions"}
                            /\ LET f == r.variableValues.questions
                                   qs == IF props.questions = None THEN <<>> ELSE props.questions[1]
                                   n == Len(qs)
                               IN  /\ Len(f) = IF n = 0 THEN 0 ELSE 3 * n - 1
                                   /\ \A i \in 1..n :
                                         /\ f[3 * i - 2] = "- "
                                         /\ f[3 * i - 1] = qs[i]
                                         /\ i < n => f[3 * i] = "\n"]_vars

C37_Witness ==
    /\ type = "interview"
    /\ callStatus = CONNECTING
    /\ props.questions = Some(<<"Explain TypeScript benefits", "What is React?">>)
    /\ startRequest = Some([assistant |-> INTERVIEWER,
                            variableValues |-> [questions |-> <<"- ", "Explain TypeScript benefits", "\n",
                                                                "- ", "What is React?">>]])

\* C38: signUp returns success = false and leaves the document when the uid
\* has one; otherwise it stores { name, email } and returns success = true;
\* no stored document is ever replaced, and of two calls for one uid at most
\* one returns success = true
C38_SignUpNeverOverwrites ==
    /\ [](\A c \in CallSlots, d \in CallSlots :
            (/\ c # d
             /\ signUpCalls[c].pc = "returned"
             /\ signUpCalls[d].pc = "returned"
             /\ signUpCalls[c].params[1].uid = signUpCalls[d].params[1].uid)
               => ~(signUpCalls[c].result[1].success /\ signUpCalls[d].result[1].success))
    /\ [][/\ \A uid \in Uids : users[uid] # None => users'[uid] = users[uid]
          /\ \A c \in CallSlots :
                (signUpCalls[c].pc # "returned" /\ signUpCalls'[c].pc = "returned")
                   => LET params == signUpCalls[c].params[1]
                          result == signUpCalls'[c].result[1]
                      IN  /\ result.success
                             => users'[params.uid] = Some([name |-> params.name, email |-> params.email])
                          /\ ~result.success => users' = users]_vars

====
